---- MODULE Spec2Model ----
(***************************************************************************)
(* Proof-of-existence claim registry: pallets/template/src/lib.rs.          *)
(*                                                                         *)
(* The pallet keeps one storage map, Claims : Hash -> (AccountId, Block),   *)
(* and exposes two dispatchables, create_claim and revoke_claim.  Each      *)
(* dispatchable runs to completion inside one extrinsic, so each is one     *)
(* action here.  The block number is read from frame_system and advanced    *)
(* by the host between extrinsics.                                          *)
(*                                                                         *)
(* `last` records the most recent call (arguments, returned result and the  *)
(* storage seen on entry); `prev` records the most recent call before       *)
(* `last` that returned Ok(()), so only calls that returned an error lie    *)
(* between the two; `lastOk` records, per hash, the most recent call that   *)
(* returned Ok(()).                                                         *)
(* They are observers: no guard of a dispatchable reads them.               *)
(*                                                                         *)
(* `twin` is a second registry that receives the same calls as the first    *)
(* but under a block number that never advances.                            *)
(***************************************************************************)
EXTENDS Naturals, Sequences, FiniteSets, TLC

VARIABLES Claims, events, block_number, last, prev, lastOk, twin

vars == <<Claims, events, block_number, last, prev, lastOk, twin>>

(* ---------------------------- bounds ---------------------------------- *)
NumAccounts == 2
NumHashes == 2
MaxBlock == 1
MaxEvents == 3

AccountId == 1..NumAccounts
Hash == 1..NumHashes
BlockNumber == 0..MaxBlock

(* ---------------------------- data ------------------------------------ *)
\* Option::None of the storage map (an absent key)
None == <<>>
\* placeholder account carried by origins that are not Signed
NoAccount == 0

\* RawOrigin as seen by ensure_signed: Signed(who), or an origin without a
\* signer (None stands for every such origin; ensure_signed tells none apart)
Signed(who) == [kind |-> "Signed", who |-> who]
Origin == {Signed(a) : a \in AccountId} \cup {[kind |-> "None", who |-> NoAccount]}

ClaimCreated(who, claim) == [name |-> "ClaimCreated", who |-> who, claim |-> claim]
ClaimRevoked(who, claim) == [name |-> "ClaimRevoked", who |-> who, claim |-> claim]

Ok == "Ok"
BadOrigin == "BadOrigin"
AlreadyClaimed == "AlreadyClaimed"
NoSuchClaim == "NoSuchClaim"
NotClaimOwner == "NotClaimOwner"

(* ---------------------------- helpers --------------------------------- *)
\* variant: every origin is taken as signed by the account it carries
ensure_signed_any(origin) == [ok |-> TRUE, who |-> origin.who]
\* ensure_signed(origin)?: Ok(who) for a Signed origin, Err(BadOrigin) otherwise
ensure_signed(origin) ==
    IF origin.kind = "Signed"
    THEN [ok |-> TRUE, who |-> origin.who]
    ELSE [ok |-> FALSE, who |-> NoAccount]

\* variants: the presence check always answers absent; always answers present
contains_key_never(S, k) == FALSE
contains_key_always(S, k) == TRUE
\* Claims::<T>::contains_key(&claim)
contains_key(S, k) == S[k] # None

\* variant: the fetch finds nothing
get_none(S, k) == None
\* Claims::<T>::get(&claim): Option<(AccountId, BlockNumber)>
get(S, k) == S[k]

\* variants: the write is lost; the block number is not stored; the write
\* evicts every entry stored in an earlier block
insert_dropped(S, k, v) == S
insert_unstamped(S, k, v) == [S EXCEPT ![k] = <<v[1], 0>>]
insert_evicting(S, k, v) ==
    [h \in DOMAIN S |->
        IF h = k THEN v
        ELSE IF S[h] # None /\ S[h][2] < v[2] THEN None ELSE S[h]]
\* Claims::<T>::insert(&claim, (&sender, current_block))
insert(S, k, v) == [S EXCEPT ![k] = v]

\* variants: the key is kept; every key is cleared; every key of the same
\* owner is cleared
remove_kept(S, k) == S
remove_all(S, k) == [h \in DOMAIN S |-> None]
remove_owned(S, k) ==
    [h \in DOMAIN S |->
        IF S[h] # None /\ S[k] # None /\ S[h][1] = S[k][1] THEN None ELSE S[h]]
\* Claims::<T>::remove(&claim)
remove(S, k) == [S EXCEPT ![k] = None]

\* variant: the event is not recorded
deposit_event_lost(log, e) == log
\* Self::deposit_event(..): append to the block's event record
deposit_event(log, e) == Append(log, e)

\* variant: any signer passes the owner check
is_owner_any(original_claimant, sender) == TRUE
\* original_claimant == sender
is_owner(original_claimant, sender) == original_claimant = sender

\* no call on the hash has returned Ok(()) yet
NoOk == [op |-> "none", who |-> NoAccount]

\* what a call sees on entry, and what it returned
Call(op, origin, claim, result) ==
    [op |-> op, origin |-> origin, claim |-> claim, result |-> result,
     Claims |-> Claims, events |-> events, block |-> block_number, lastOk |-> lastOk]

NoCall ==
    [op |-> "none", origin |-> [kind |-> "None", who |-> NoAccount], claim |-> 0,
     result |-> "none", Claims |-> [h \in Hash |-> None], events |-> <<>>,
     block |-> 0, lastOk |-> [h \in Hash |-> NoOk]]

\* what `prev` keeps of a call: its arguments, result and the Claims it saw
Brief(c) ==
    [op |-> c.op, origin |-> c.origin, claim |-> c.claim, result |-> c.result,
     Claims |-> c.Claims]

\* a new call is being recorded in `last`: keep the old one if it returned Ok(())
Shift == prev' = IF last.result = Ok THEN Brief(last) ELSE prev

\* an error return: `?` / ensure! leave storage and events untouched
Fail(op, origin, claim, err) ==
    /\ last' = Call(op, origin, claim, err)
    /\ Shift
    /\ UNCHANGED <<Claims, events, block_number, lastOk>>

\* Ok(()) returned by op on claim
Succeed(op, origin, claim, who) ==
    /\ last' = Call(op, origin, claim, Ok)
    /\ Shift
    /\ lastOk' = [lastOk EXCEPT ![claim] = [op |-> op, who |-> who]]
    /\ UNCHANGED block_number

(* ---------------------------- state ----------------------------------- *)
\* Claims: StorageMap<Hash, (AccountId, BlockNumber)>; events: the deposited
\* Event values in order; block_number: frame_system's current block number
TypeOK ==
    /\ Claims \in [Hash -> {None} \cup (AccountId \X BlockNumber)]
    /\ \A i \in 1..Len(events) :
          /\ events[i].name \in {"ClaimCreated", "ClaimRevoked"}
          /\ events[i].claim \in Hash
    /\ block_number \in BlockNumber

Init ==
    /\ Claims = [h \in Hash |-> None]
    /\ events = <<>>
    /\ block_number = 0
    /\ last = NoCall
    /\ prev = Brief(NoCall)
    /\ lastOk = [h \in Hash |-> NoOk]
    /\ twin = [Claims |-> [h \in Hash |-> None], events |-> <<>>, result |-> "none"]

(* ---------------------------- dispatchables --------------------------- *)
\* create_claim with the insert moved above the AlreadyClaimed check
create_claim_insert_first(origin, claim) ==
    LET signed == ensure_signed(origin)
        sender == signed.who
    IN  IF ~signed.ok THEN Fail("create_claim", origin, claim, BadOrigin)
        ELSE IF contains_key(Claims, claim)
             THEN /\ Claims' = insert(Claims, claim, <<sender, block_number>>)
                  /\ last' = Call("create_claim", origin, claim, AlreadyClaimed)
                  /\ Shift
                  /\ UNCHANGED <<events, block_number, lastOk>>
        ELSE /\ Claims' = insert(Claims, claim, <<sender, block_number>>)
             /\ events' = deposit_event(events, ClaimCreated(sender, claim))
             /\ Succeed("create_claim", origin, claim, sender)

create_claim(origin, claim) ==
    LET signed == ensure_signed(origin)
        sender == signed.who
    IN  IF ~signed.ok THEN Fail("create_claim", origin, claim, BadOrigin)
        ELSE IF contains_key(Claims, claim)
             THEN Fail("create_claim", origin, claim, AlreadyClaimed)
        ELSE LET current_block == block_number
             IN  /\ Claims' = insert(Claims, claim, <<sender, current_block>>)
                 /\ events' = deposit_event(events, ClaimCreated(sender, claim))
                 /\ Succeed("create_claim", origin, claim, sender)

\* revoke_claim comparing the owner of a defaulted fetch before the presence check
revoke_claim_owner_first(origin, claim) ==
    LET signed == ensure_signed(origin)
        sender == signed.who
        original_claimant == IF get(Claims, claim) = None THEN NoAccount
                             ELSE get(Claims, claim)[1]
    IN  IF ~signed.ok THEN Fail("revoke_claim", origin, claim, BadOrigin)
        ELSE IF ~is_owner(original_claimant, sender)
             THEN Fail("revoke_claim", origin, claim, NotClaimOwner)
        ELSE IF ~contains_key(Claims, claim)
             THEN Fail("revoke_claim", origin, claim, NoSuchClaim)
        ELSE /\ Claims' = remove(Claims, claim)
             /\ events' = deposit_event(events, ClaimRevoked(sender, claim))
             /\ Succeed("revoke_claim", origin, claim, sender)

\* revoke_claim with the remove moved above the owner check
revoke_claim_remove_first(origin, claim) ==
    LET signed == ensure_signed(origin)
        sender == signed.who
    IN  IF ~signed.ok THEN Fail("revoke_claim", origin, claim, BadOrigin)
        ELSE IF ~contains_key(Claims, claim)
             THEN Fail("revoke_claim", origin, claim, NoSuchClaim)
        ELSE IF ~is_owner(get(Claims, claim)[1], sender)
             THEN /\ Claims' = remove(Claims, claim)
                  /\ last' = Call("revoke_claim", origin, claim, NotClaimOwner)
                  /\ Shift
                  /\ UNCHANGED <<events, block_number, lastOk>>
        ELSE /\ Claims' = remove(Claims, claim)
             /\ events' = deposit_event(events, ClaimRevoked(sender, claim))
             /\ Succeed("revoke_claim", origin, claim, sender)

revoke_claim(origin, claim) ==
    LET signed == ensure_signed(origin)
        sender == signed.who
    IN  IF ~signed.ok THEN Fail("revoke_claim", origin, claim, BadOrigin)
        ELSE IF ~contains_key(Claims, claim)
             THEN Fail("revoke_claim", origin, claim, NoSuchClaim)
        ELSE IF get(Claims, claim) = None
             THEN Fail("revoke_claim", origin, claim, NoSuchClaim)
        ELSE LET original_claimant == get(Claims, claim)[1]
             IN  IF ~is_owner(original_claimant, sender)
                 THEN Fail("revoke_claim", origin, claim, NotClaimOwner)
                 ELSE /\ Claims' = remove(Claims, claim)
                      /\ events' = deposit_event(events, ClaimRevoked(sender, claim))
                      /\ Succeed("revoke_claim", origin, claim, sender)

\* create_claim as a function of the registry st = [Claims, events, result]
\* it runs on and of the block number blk it reads
create_claim_on(st, blk, origin, claim) ==
    LET signed == ensure_signed(origin)
        sender == signed.who
    IN  IF ~signed.ok THEN [st EXCEPT !.result = BadOrigin]
        ELSE IF contains_key(st.Claims, claim)
             THEN [st EXCEPT !.result = AlreadyClaimed]
        ELSE [Claims |-> insert(st.Claims, claim, <<sender, blk>>),
              events |-> deposit_event(st.events, ClaimCreated(sender, claim)),
              result |-> Ok]

\* revoke_claim as a function of the registry st it runs on
revoke_claim_on(st, origin, claim) ==
    LET signed == ensure_signed(origin)
        sender == signed.who
    IN  IF ~signed.ok THEN [st EXCEPT !.result = BadOrigin]
        ELSE IF ~contains_key(st.Claims, claim)
             THEN [st EXCEPT !.result = NoSuchClaim]
        ELSE IF get(st.Claims, claim) = None
             THEN [st EXCEPT !.result = NoSuchClaim]
        ELSE IF ~is_owner(get(st.Claims, claim)[1], sender)
             THEN [st EXCEPT !.result = NotClaimOwner]
        ELSE [Claims |-> remove(st.Claims, claim),
              events |-> deposit_event(st.events, ClaimRevoked(sender, claim)),
              result |-> Ok]

\* the block number every call on `twin` reads
twin_block_number == 0

\* the host moves to the next block; block_number() then returns the new height
next_block ==
    /\ block_number < MaxBlock
    /\ block_number' = block_number + 1
    /\ UNCHANGED <<Claims, events, last, prev, lastOk, twin>>

\* an extrinsic carrying create_claim; the event record is capped at MaxEvents
CreateClaim ==
    \E origin \in Origin, claim \in Hash :
        /\ create_claim(origin, claim)
        /\ twin' = create_claim_on(twin, twin_block_number, origin, claim)
        /\ Len(events') <= MaxEvents

\* an extrinsic carrying revoke_claim; the event record is capped at MaxEvents
RevokeClaim ==
    \E origin \in Origin, claim \in Hash :
        /\ revoke_claim(origin, claim)
        /\ twin' = revoke_claim_on(twin, origin, claim)
        /\ Len(events') <= MaxEvents

Next == CreateClaim \/ RevokeClaim \/ next_block

Spec == Init /\ [][Next]_vars

\* the host clears the event record (frame_system does so when it starts a
\* block); the registry is not touched
reset_events ==
    /\ events # <<>>
    /\ events' = <<>>
    /\ twin' = [twin EXCEPT !.events = <<>>]
    /\ UNCHANGED <<Claims, block_number, last, prev, lastOk>>

\* an extrinsic in which some signer's create_claim on f returns Ok
CreateOk(f) ==
    \E a \in AccountId :
        /\ create_claim(Signed(a), f)
        /\ twin' = create_claim_on(twin, twin_block_number, Signed(a), f)
        /\ last'.result = Ok
        /\ Len(events') <= MaxEvents

\* an extrinsic in which the owner's revoke_claim on f returns Ok
RevokeOk(f) ==
    \E a \in AccountId :
        /\ revoke_claim(Signed(a), f)
        /\ twin' = revoke_claim_on(twin, Signed(a), f)
        /\ last'.result = Ok
        /\ Len(events') <= MaxEvents

NextLive == CreateClaim \/ RevokeClaim \/ next_block \/ reset_events

\* the registry with the event record cleared from time to time, under fair
\* scheduling of the owner's revoke and of some signer's create on every hash
SpecLive ==
    /\ Init
    /\ [][NextLive]_vars
    /\ WF_vars(reset_events)
    /\ \A f \in Hash : SF_vars(CreateOk(f)) /\ SF_vars(RevokeOk(f))

(* ---------------------------- properties ------------------------------ *)
IsSigned(c) == c.origin.kind = "Signed"
Present(S, f) == S[f] # None

\* C1 Uniqueness: once create_claim(a, f) has returned Ok and f has not been
\* revoked since, a create_claim(b, f) by any signed b (b = a included)
\* returns AlreadyClaimed and the stored claim for f keeps owner a and its
\* registered_at.
C1_Uniqueness ==
    (/\ last.op = "create_claim"
     /\ IsSigned(last)
     /\ last.lastOk[last.claim].op = "create_claim")
    => /\ last.result = AlreadyClaimed
       /\ Claims[last.claim] = last.Claims[last.claim]
       /\ Present(Claims, last.claim)
       /\ Claims[last.claim][1] = last.lastOk[last.claim].who

C1_Witness ==
    /\ last.op = "create_claim"
    /\ last.result = AlreadyClaimed
    /\ prev.op = "create_claim"
    /\ prev.claim = last.claim
    /\ last.origin = Signed(Claims[last.claim][1])
    /\ last.block > Claims[last.claim][2]

\* C2 Owner-exclusive revocation: revoke_claim(b, f) by a signed b other than
\* the stored owner a returns NotClaimOwner and leaves f stored unchanged;
\* and whenever a call removed a stored claim, that call was a revoke_claim
\* on that hash whose signer was the stored owner.
C2_OwnerExclusive ==
    /\ (/\ last.op = "revoke_claim"
        /\ IsSigned(last)
        /\ Present(last.Claims, last.claim)
        /\ last.origin.who # last.Claims[last.claim][1])
       => /\ last.result = NotClaimOwner
          /\ Claims[last.claim] = last.Claims[last.claim]
    /\ \A f \in Hash :
         (Present(last.Claims, f) /\ ~Present(Claims, f))
         => /\ last.op = "revoke_claim"
            /\ last.claim = f
            /\ last.origin = Signed(last.Claims[f][1])

C2_Witness ==
    /\ last.op = "revoke_claim"
    /\ last.result = NotClaimOwner
    /\ Present(Claims, last.claim)
    /\ prev.op = "revoke_claim"
    /\ prev.result = Ok
    /\ ~Present(Claims, prev.claim)

\* C3 No-op on failure: a call that returned an error left Claims and the
\* event log exactly as they were on entry.
C3_NoOpOnFailure ==
    (last.op # "none" /\ last.result # Ok)
    => /\ Claims = last.Claims
       /\ events = last.events
       /\ lastOk = last.lastOk

C3_Witness ==
    /\ last.result \in {BadOrigin, AlreadyClaimed, NoSuchClaim, NotClaimOwner}
    /\ prev.result = Ok
    /\ \E f \in Hash : Present(Claims, f)
    /\ Len(events) > 1

\* C4 create_claim success effect: create_claim(a, f) by a signed a on an
\* absent f returns Ok, stores f -> (a, block number at the call) and appends
\* exactly the event ClaimCreated{who: a, claim: f}.
C4_CreateEffect ==
    (/\ last.op = "create_claim"
     /\ IsSigned(last)
     /\ ~Present(last.Claims, last.claim))
    => /\ last.result = Ok
       /\ Claims[last.claim] = <<last.origin.who, last.block>>
       /\ events = Append(last.events, ClaimCreated(last.origin.who, last.claim))

C4_Witness ==
    /\ last.op = "create_claim"
    /\ last.result = Ok
    /\ last.block > 0
    /\ Len(last.events) > 0
    /\ \E g \in Hash \ {last.claim} : Present(Claims, g) /\ Claims[g][1] = last.origin.who

C6_AllOrNothing ==
    last.op # "none" =>
    LET f == last.claim
        who == last.origin.who
    IN  \/ /\ Claims = last.Claims
           /\ events = last.events
        \/ /\ last.op = "create_claim"
           /\ ~Present(last.Claims, f)
           /\ Present(Claims, f)
           /\ events = Append(last.events, ClaimCreated(who, f))
        \/ /\ last.op = "revoke_claim"
           /\ Present(last.Claims, f)
           /\ ~Present(Claims, f)
           /\ events = Append(last.events, ClaimRevoked(who, f))

C6_Witness ==
    /\ last.op = "revoke_claim"
    /\ Claims # last.Claims
    /\ Len(events) = Len(last.events) + 1
    /\ prev.op = "create_claim"
    /\ prev.Claims # last.Claims
    /\ Len(last.events) > 0

\* C7 Claim immutability: in every step, a hash stored both before and after
\* the step keeps its (owner, registered_at); and when the pair stored for f
\* differs across the last two Ok calls, these were a revoke_claim(f) by the
\* old owner followed by a create_claim(f).
ImmutableStep ==
    \A f \in Hash :
        (Present(Claims, f) /\ Present(Claims', f)) => Claims'[f] = Claims[f]

ChangedOnlyByRecreate ==
    \A f \in Hash :
        (Present(prev.Claims, f) /\ Present(Claims, f) /\ Claims[f] # prev.Claims[f])
        => /\ prev.op = "revoke_claim"
           /\ prev.claim = f
           /\ prev.result = Ok
           /\ prev.origin = Signed(prev.Claims[f][1])
           /\ last.op = "create_claim"
           /\ last.claim = f
           /\ last.result = Ok

C7_Immutability == [][ImmutableStep /\ ChangedOnlyByRecreate']_vars

C7_Witness ==
    \E f \in Hash :
        /\ Present(prev.Claims, f)
        /\ Present(Claims, f)
        /\ Claims[f][1] # prev.Claims[f][1]
        /\ Claims[f][2] # prev.Claims[f][2]

\* C8 Registry presence: f is stored iff the most recent call on f that
\* returned Ok was a create_claim, and then the stored owner is that call's
\* signer; f is absent iff no create_claim on f ever returned Ok or the most
\* recent Ok call on f was a revoke_claim.
C8_Presence ==
    \A f \in Hash :
        /\ Present(Claims, f) <=> lastOk[f].op = "create_claim"
        /\ Present(Claims, f) => Claims[f][1] = lastOk[f].who
        /\ ~Present(Claims, f) <=> lastOk[f].op \in {"none", "revoke_claim"}
        /\ lastOk[f].op = "none" =>
              \A i \in 1..Len(events) : events[i].claim # f

C8_Witness ==
    \E f, g \in Hash :
        /\ lastOk[f].op = "create_claim" /\ Present(Claims, f)
        /\ lastOk[g].op = "revoke_claim" /\ ~Present(Claims, g)
        /\ Len(events) >= 3
        /\ events[1].claim = f

\* C9 Round-trip: create_claim(a, f) by a signed a on an absent f returns Ok
\* and touches no other hash, and a revoke_claim(a, f) that follows that Ok
\* create_claim with no other Ok call in between returns Ok and leaves
\* Claims equal to what it was before the create_claim, whatever the block
\* numbers of the two calls.
C9_RoundTrip ==
    /\ (/\ last.op = "create_claim"
        /\ IsSigned(last)
        /\ ~Present(last.Claims, last.claim))
       => /\ last.result = Ok
          /\ \A g \in Hash \ {last.claim} : Claims[g] = last.Claims[g]
    /\ (/\ prev.op = "create_claim"
        /\ prev.result = Ok
        /\ last.op = "revoke_claim"
        /\ last.origin = prev.origin
        /\ last.claim = prev.claim)
       => /\ ~Present(prev.Claims, prev.claim)
          /\ last.result = Ok
          /\ Claims = prev.Claims

C9_Witness ==
    /\ prev.op = "create_claim"
    /\ prev.result = Ok
    /\ last.op = "revoke_claim"
    /\ last.result = Ok
    /\ last.claim = prev.claim
    /\ last.block > last.Claims[last.claim][2]
    /\ \E g \in Hash : Present(Claims, g)

\* C10 Idempotent failure: revoke_claim(a, f) by a signed a on an absent f
\* returns NoSuchClaim (never NotClaimOwner) and leaves Claims unchanged, so
\* repeating the call, also by a former owner of f, fails the same way.
C10_IdempotentFailure ==
    (/\ last.op = "revoke_claim"
     /\ IsSigned(last)
     /\ ~Present(last.Claims, last.claim))
    => /\ last.result = NoSuchClaim
       /\ Claims = last.Claims
       /\ events = last.events

C10_Witness ==
    /\ last.op = "revoke_claim"
    /\ last.result = NoSuchClaim
    /\ prev.op = "revoke_claim"
    /\ prev.claim = last.claim
    /\ lastOk[last.claim] = [op |-> "revoke_claim", who |-> last.origin.who]

\* C11 Authentication first: a call whose origin is not Signed returns
\* BadOrigin whether or not the hash is stored, and changes neither Claims
\* nor the event log; every stored owner and every event's `who` is an
\* account that signed a call.
C11_AuthFirst ==
    /\ (last.op # "none" /\ ~IsSigned(last))
       => /\ last.result = BadOrigin
          /\ Claims = last.Claims
          /\ events = last.events
    /\ \A f \in Hash : Present(Claims, f) => Claims[f][1] \in AccountId
    /\ \A i \in 1..Len(events) : events[i].who \in AccountId

C11_Witness ==
    /\ last.op = "revoke_claim"
    /\ ~IsSigned(last)
    /\ last.result = BadOrigin
    /\ Present(Claims, last.claim)
    /\ prev.op = "create_claim"
    /\ \E g \in Hash : ~Present(Claims, g)

\* C12 Event log mirrors the registry: the log grows only in a call that
\* returned Ok; for every hash f the events about f alternate ClaimCreated,
\* ClaimRevoked, ... starting with ClaimCreated, each ClaimRevoked carrying
\* the `who` of the ClaimCreated just before it; and f is stored iff the last
\* event about f is a ClaimCreated, whose `who` is the stored owner.
EventsAbout(f) == SelectSeq(events, LAMBDA e : e.claim = f)

C13_RefetchNeverFails ==
    /\ \A f \in Hash : contains_key(Claims, f) => get(Claims, f) # None
    /\ (last.op = "revoke_claim" /\ last.result = NoSuchClaim)
       => ~Present(last.Claims, last.claim)
    /\ (last.op = "revoke_claim" /\ IsSigned(last) /\ Present(last.Claims, last.claim))
       => last.result \in {Ok, NotClaimOwner}

C13_Witness ==
    /\ last.op = "revoke_claim"
    /\ last.result = Ok
    /\ Len(last.events) = 1
    /\ prev.op = "create_claim"
    /\ prev.claim = last.claim
    /\ last.block > last.Claims[last.claim][2]

\* C15 Frame: a call on f, whatever it returns, leaves the entry of every
\* other hash unchanged, also when the signer owns several hashes; a call
\* that returned Ok changed the entry of f.
C15_Frame ==
    last.op # "none" =>
        /\ \A g \in Hash \ {last.claim} : Claims[g] = last.Claims[g]
        /\ last.result = Ok => Claims[last.claim] # last.Claims[last.claim]
        /\ last.result # Ok => Claims[last.claim] = last.Claims[last.claim]

C15_Witness ==
    /\ last.op = "revoke_claim"
    /\ last.result = Ok
    /\ \E g \in Hash \ {last.claim} :
          /\ Present(Claims, g)
          /\ Claims[g][1] = last.origin.who

\* C17 Timestamp bound and reset: with the block number never decreasing,
\* every stored registered_at is at most the current block number; an entry
\* is written only by a create_claim that returned Ok, which stores the block
\* number of that call, so a revoke and recreate replaces the old
\* registered_at by the block number at the recreation.
TimestampStep ==
    /\ block_number' >= block_number
    /\ \A f \in Hash :
         /\ Present(Claims', f) => Claims'[f][2] <= block_number'
         /\ (Present(Claims', f) /\ Claims'[f] # Claims[f])
            => /\ last'.op = "create_claim"
               /\ last'.claim = f
               /\ last'.result = Ok
               /\ Claims'[f][2] = block_number
         /\ (last' # last /\ last'.op = "create_claim" /\ last'.result = Ok
               /\ last'.claim = f)
            => Claims'[f] = <<last'.origin.who, block_number>>

C17_Timestamp == [][TimestampStep]_vars

C17_Witness ==
    \E f \in Hash :
        /\ prev.op = "revoke_claim"
        /\ prev.claim = f
        /\ last.op = "create_claim"
        /\ last.claim = f
        /\ last.result = Ok
        /\ Claims[f][2] > prev.Claims[f][2]
        /\ Claims[f][1] = prev.Claims[f][1]

\* C16 Clock independence: two runs that apply the same calls from the empty
\* registry under different block numbers agree on every result, on the set
\* of stored hashes, on their owners and on the event log; they differ at
\* most in the stored registered_at.  The second run is `twin`, whose block
\* number stays at its initial value; a run whose block number never advances
\* is itself among the first run's behaviours, so agreement of every run
\* with it is agreement of every two runs.
Owners(S) == [f \in DOMAIN S |-> IF S[f] = None THEN NoAccount ELSE S[f][1]]

C16_ClockIndependence ==
    /\ Owners(twin.Claims) = Owners(Claims)
    /\ twin.events = events
    /\ twin.result = last.result
    /\ \A f \in Hash : Present(twin.Claims, f) <=> Present(Claims, f)

C16_Witness ==
    /\ last.op = "revoke_claim"
    /\ last.result = NotClaimOwner
    /\ Claims[last.claim][2] > twin.Claims[last.claim][2]
    /\ lastOk[last.claim].op = "create_claim"
    /\ \E g \in Hash : lastOk[g].op = "revoke_claim"

\* C14 No terminal state: in every reachable state and for every hash f a
\* call on f that returns Ok is possible -- create_claim by any signer when f
\* is absent, revoke_claim by the owner when f is stored -- and under fair
\* scheduling of these calls every hash is stored infinitely often and absent
\* infinitely often.
CanCreate(a, f) ==
    ENABLED (/\ create_claim(Signed(a), f)
             /\ last'.result = Ok
             /\ UNCHANGED twin)

CanRevoke(a, f) ==
    ENABLED (/\ revoke_claim(Signed(a), f)
             /\ last'.result = Ok
             /\ UNCHANGED twin)

ToggleEnabled ==
    \A f \in Hash :
        IF Present(Claims, f)
        THEN CanRevoke(Claims[f][1], f)
        ELSE \A a \in AccountId : CanCreate(a, f)

C14_NoTerminalState ==
    /\ []ToggleEnabled
    /\ \A f \in Hash : []<>Present(Claims, f) /\ []<>(~Present(Claims, f))

C14_Witness ==
    \E f \in Hash :
        /\ events = <<>>
        /\ last.events # <<>>
        /\ Present(Claims, f)
        /\ lastOk[f].op = "create_claim"
        /\ prev.op = "revoke_claim"
        /\ prev.claim = f

====
